---- MODULE Spec2Model ----
(***************************************************************************)
(* A model of tdm.gfs.noaa.noaa_fetcher: the readiness poll, the listing   *)
(* of the dataset directory and the retry rounds of noaa_fetcher.fetch     *)
(* over a thread pool, for the FTP and the HTTP transport.                 *)
(*                                                                         *)
(* The remote archive is the environment: what a listing or a transfer     *)
(* answers is chosen when the request is made.                             *)
(***************************************************************************)
EXTENDS Integers, Sequences, FiniteSets, TLC

\* ------------------------------------------------------------------ bounds
\* Sleeps of the polling loop that are explored (the loop itself is unbounded).
MaxPolls == 2
\* Lines (FTP) or anchors (HTTP) of one remote listing.
MaxLines == 3
\* Largest value of fetch's nthreads parameter that is explored.
MaxThreads == 2

\* ------------------------------------------------------- program constants
NOAA_DATASET_FOLDER_SIZE == 196608

FETCH_ATTEMPTS_4 == 3 + 1
FETCH_ATTEMPTS == 3

Transports == {"ftp", "http"}

\* self.ds, the dataset group of the fetcher's date, and another group.
ds == "gfs.20230101"
GroupNames == {ds, "gfs.20221231"}

\* Entry names of the dataset directory. pre is the prefix fetch computes
\* (pattern + '.' + res): the names of PreNames start with it, the names of
\* IdxNames end with '.idx'.
FileNames == {"a", "b", "a.idx", "x"}
PreNames == {"a", "b", "a.idx"}
IdxNames == {"a.idx"}
startswith_pre(f) == f \in PreNames
endswith_idx(f) == f \in IdxNames

\* ------------------------------------------------------------ helpers
Range(s) == {s[j] : j \in 1..Len(s)}
BSeq(S, n) == UNION {[1..m -> S] : m \in 0..n}

\* A Python dict of listing entries, in insertion order: a sequence of
\* [name, size] with pairwise different names; assigning an existing key
\* replaces its value in place.
HasKey(entries, n) == \E j \in 1..Len(entries) : entries[j].name = n
Get(entries, n) == entries[CHOOSE j \in 1..Len(entries) : entries[j].name = n]
DictSet_append(entries, e) == Append(entries, e)
DictSet(entries, e) ==
    IF HasKey(entries, e.name)
    THEN [j \in 1..Len(entries) |->
            IF entries[j].name = e.name THEN e ELSE entries[j]]
    ELSE Append(entries, e)
Keys(entries) == [j \in 1..Len(entries) |-> entries[j].name]

\* --------------------------------------------------- size-unit parser
\* A size token of the HTTP index: its digits and its unit letter ("" when
\* the token has none).
power == [K |-> 1, M |-> 2, G |-> 3, T |-> 4, P |-> 5]
RECURSIVE pow(_, _)
pow(b, e) == IF e = 0 THEN 1 ELSE b * pow(b, e - 1)
to_bytes(d) ==
    LET r == d.unit \in DOMAIN power
    IN  IF r THEN d.digits * pow(1024, power[d.unit])
        ELSE IF r THEN d.digits ELSE 0

\* ------------------------------------------------- directory listings
\* ftp_noaa_fetcher.list_files_in_path. resp is the server's answer:
\* ok = FALSE when connecting, login or cwd raises (nothing catches it),
\* lines = the LIST lines, each given by its size and name fields.
RECURSIVE add_clean_entries(_)
add_clean_entries(lines) ==
    IF lines = <<>> THEN <<>>
    ELSE DictSet(add_clean_entries(SubSeq(lines, 1, Len(lines) - 1)),
                 [name |-> lines[Len(lines)].name,
                  size |-> lines[Len(lines)].size])
ftp_list_files_in_path(resp) ==
    IF ~resp.ok THEN [raised |-> TRUE, entries |-> <<>>]
    ELSE [raised |-> FALSE, entries |-> add_clean_entries(resp.lines)]

\* http_noaa_fetcher.list_files_in_path. resp: ok = FALSE when the GET
\* raises; otherwise status_code and the anchors the regex matches, each
\* given by its (stripped) name and its size token.
RECURSIVE anchor_entries(_)
anchor_entries(anchors) ==
    IF anchors = <<>> THEN <<>>
    ELSE DictSet(anchor_entries(SubSeq(anchors, 1, Len(anchors) - 1)),
                 [name |-> anchors[Len(anchors)].name,
                  size |-> to_bytes(anchors[Len(anchors)].tok)])
http_list_files_in_path(resp) ==
    IF ~resp.ok THEN [raised |-> TRUE, entries |-> <<>>]
    ELSE IF resp.status_code = 200
         THEN [raised |-> FALSE, entries |-> anchor_entries(resp.anchors)]
         ELSE [raised |-> FALSE, entries |-> <<>>]

list_files_in_path(tr, resp) ==
    IF tr = "ftp" THEN ftp_list_files_in_path(resp)
    ELSE http_list_files_in_path(resp)

\* What the archive can answer to a listing of the base path (the groups)
\* and of the dataset directory (the files).
FtpSizes == {100000, 196608, 196609, 300000}
HttpToks == {[digits |-> 100, unit |-> "K"], [digits |-> 192, unit |-> "K"],
             [digits |-> 193, unit |-> "K"], [digits |-> 12345, unit |-> ""]}
FtpGroupLines == [name : {ds}, size : FtpSizes]
                    \cup [name : GroupNames \ {ds}, size : {100000}]
HttpGroupAnchors == [name : {ds}, tok : HttpToks]
                    \cup [name : GroupNames \ {ds}, tok : {[digits |-> 100, unit |-> "K"]}]
FtpFileLines == [name : FileNames, size : {100000}]
HttpFileAnchors == [name : FileNames, tok : {[digits |-> 100, unit |-> "K"]}]

FtpResps(L) == {[ok |-> FALSE, lines |-> <<>>]}
                 \cup {[ok |-> TRUE, lines |-> l] : l \in BSeq(L, MaxLines)}
HttpResps(A) == {[ok |-> FALSE, status_code |-> 0, anchors |-> <<>>],
                 [ok |-> TRUE, status_code |-> 404, anchors |-> <<>>]}
                 \cup {[ok |-> TRUE, status_code |-> 200, anchors |-> a] :
                          a \in BSeq(A, MaxLines)}
GroupResps(tr) == IF tr = "ftp" THEN FtpResps(FtpGroupLines)
                  ELSE HttpResps(HttpGroupAnchors)
FileResps(tr) == IF tr = "ftp" THEN FtpResps(FtpFileLines)
                 ELSE HttpResps(HttpFileAnchors)

\* ------------------------------------------------------ readiness
is_dataset_ready_lt(available_groups) ==
    /\ HasKey(available_groups, ds)
    /\ Get(available_groups, ds).size < NOAA_DATASET_FOLDER_SIZE
is_dataset_ready(available_groups) ==
    /\ HasKey(available_groups, ds)
    /\ Get(available_groups, ds).size <= NOAA_DATASET_FOLDER_SIZE

\* ------------------------------------------------------ file fetchers
\* ftp_noaa_fetcher.fetch_file. remote: "connect_error" (FTP(), login or
\* cwd raises, before the target is opened), "retr_error" (retrbinary
\* raises after open(target, 'wb') truncated the target) or "ok".
\* id names the call: a file holds the bytes the call id wrote into it.
\* opened tells whether the call opened (and so truncated) the target.
ftp_fetch_file(fname, remote, d, id) ==
    IF remote = "connect_error"
    THEN [raised |-> TRUE, code |-> 0, opened |-> FALSE, disk |-> d]
    ELSE IF remote = "retr_error"
    THEN [raised |-> TRUE, code |-> 0, opened |-> TRUE,
          disk |-> [d EXCEPT ![fname] = [st |-> "partial", by |-> id]]]
    ELSE [raised |-> FALSE, code |-> 0, opened |-> TRUE,
          disk |-> [d EXCEPT ![fname] = [st |-> "full", by |-> id]]]

\* http_noaa_fetcher.fetch_file. remote: ok = FALSE when session.get
\* raises, otherwise the response's status_code.
http_fetch_file_writes_any_status(fname, remote, d, id) ==
    IF ~remote.ok
    THEN [raised |-> TRUE, code |-> 0, opened |-> FALSE, disk |-> d]
    ELSE [raised |-> FALSE, code |-> remote.status_code, opened |-> TRUE,
          disk |-> [d EXCEPT ![fname] = [st |-> "full", by |-> id]]]
http_fetch_file(fname, remote, d, id) ==
    IF ~remote.ok
    THEN [raised |-> TRUE, code |-> 0, opened |-> FALSE, disk |-> d]
    ELSE IF remote.status_code = 200
    THEN [raised |-> FALSE, code |-> 200, opened |-> TRUE,
          disk |-> [d EXCEPT ![fname] = [st |-> "full", by |-> id]]]
    ELSE [raised |-> FALSE, code |-> remote.status_code, opened |-> FALSE,
          disk |-> d]

\* http_noaa_fetcher.session: the test of line 164 on the value s of
\* self._session (0 is None), giving where the property goes next.
session_check(s) == IF s = 0 THEN "creating" ELSE "getting"

FtpFetchRemotes == {"connect_error", "retr_error", "ok"}
HttpFetchRemotes == {[ok |-> FALSE, status_code |-> 0],
                     [ok |-> TRUE, status_code |-> 200],
                     [ok |-> TRUE, status_code |-> 404]}
FetchRemotes(tr) == IF tr = "ftp" THEN FtpFetchRemotes ELSE HttpFetchRemotes
fetch_file(tr, fname, remote, d, id) ==
    IF tr = "ftp" THEN ftp_fetch_file(fname, remote, d, id)
    ELSE http_fetch_file(fname, remote, d, id)

\* ------------------------------------------------------------ state
VARIABLES
    transport,  \* which subclass the fetcher is
    nthreads,   \* fetch's nthreads: max_workers of the pool
    pc,         \* where fetch is: poll, sleep, list, submit, collect,
                \* done (the success branch), failed (the for-else branch),
                \* crashed (an exception left fetch)
    exc,        \* the call whose exception left fetch, or "none"
    polls,      \* sleeps taken so far
    groups,     \* available_groups of the latest is_dataset_ready call
    ready,      \* what the latest is_dataset_ready call returned
    files,      \* fetch's files list
    initial,    \* the value of files after the listing (line 86)
    i,          \* the loop index of the for loop over the attempts
    pool,       \* every work item submitted to the executor, in order
    futs,       \* fut_by_fname of the round: the indices in pool
    yielded,    \* the futures as_completed has yielded in this round
    failed,     \* recover_results' failed list
    outs,       \* the value recover_results returned, per round
    disk,       \* the target directory: per name, st (absent, partial or
                \* full) and by (the call whose bytes the file holds)
    list_code,  \* status_code of the listing of line 86 (0: none, or FTP)
    self_session, \* http_noaa_fetcher._session: 0 is None, else a session
    nsessions,  \* how many requests.Session() were created
    d_in,       \* to_bytes: its argument d
    d_out,      \* to_bytes: what it returned for d_in
    argv,       \* the -D occurrences parse_args has handled, in order
    D,          \* namespace.D: None, or the destination dict (its items)
    argerr      \* kv_pair raised ArgumentTypeError: the parser has exited

sess == <<self_session, nsessions>>
aux == <<d_in, d_out, argv, D, argerr>>
main == <<transport, nthreads, pc, exc, polls, groups, ready, files, initial,
          i, pool, futs, yielded, failed, outs, disk, list_code, sess>>
vars == <<main, aux>>

Completed(t) == pool[t].st \in {"returned", "raised"}
\* The work items a worker thread is executing. An HTTP call is "running"
\* up to the test of the session property, "creating" between the test and
\* the assignment of line 165, "getting" from there on.
Running == {t \in 1..Len(pool) : pool[t].st \in {"running", "creating", "getting"}}

\* Python's None, and a dict with the sequence of its items.
None == [is_none |-> TRUE, items |-> <<>>]
Dict(items) == [is_none |-> FALSE, items |-> items]

\* Nothing was parsed.
NoTok == [digits |-> 0, unit |-> "none"]
AuxIdle ==
    /\ d_in = NoTok
    /\ d_out = 0
    /\ argv = <<>>
    /\ D = None
    /\ argerr = FALSE

\* The values of nthreads that are explored: 4 is the default.
PoolSizes == (1..MaxThreads) \cup {4, 8}

Init ==
    /\ transport \in Transports
    /\ nthreads \in PoolSizes
    /\ pc = "poll"
    /\ exc = "none"
    /\ polls = 0
    /\ groups = <<>>
    /\ ready = FALSE
    /\ files = <<>>
    /\ initial = <<>>
    /\ i = 0
    /\ pool = <<>>
    /\ futs = <<>>
    /\ yielded = {}
    /\ failed = <<>>
    /\ outs = <<>>
    /\ disk = [f \in FileNames |-> [st |-> "absent", by |-> 0]]
    /\ list_code = 0
    /\ self_session = 0
    /\ nsessions = 0
    /\ AuxIdle

\* ------------------------------------------------------ polling loop
\* The while condition of line 82: where fetch goes after a poll.
after_poll_always(r) == "list"
after_poll(r) == IF r THEN "list" ELSE "sleep"

\* One evaluation of `while not self.is_dataset_ready()`.
Poll ==
    /\ pc = "poll"
    /\ \E resp \in GroupResps(transport) :
         LET r == list_files_in_path(transport, resp)
         IN  IF r.raised
             THEN /\ pc' = "crashed"
                  /\ exc' = "is_dataset_ready"
                  /\ UNCHANGED <<groups, ready>>
             ELSE /\ groups' = r.entries
                  /\ ready' = is_dataset_ready(r.entries)
                  /\ pc' = after_poll(is_dataset_ready(r.entries))
                  /\ exc' = exc
    /\ UNCHANGED <<aux, transport, nthreads, polls, files, initial, i, pool, futs,
                   yielded, failed, outs, disk, list_code, sess>>

\* time.sleep(tsleep), then back to the while condition.
Sleep ==
    /\ pc = "sleep"
    /\ polls < MaxPolls
    /\ polls' = polls + 1
    /\ pc' = "poll"
    /\ UNCHANGED <<aux, transport, nthreads, exc, groups, ready, files, initial, i,
                   pool, futs, yielded, failed, outs, disk, list_code, sess>>

\* ------------------------------------------------------------ listing
select_files(entries) ==
    SelectSeq(Keys(entries), LAMBDA f : startswith_pre(f) /\ ~endswith_idx(f))

\* Lines 86-87. available_groups is a local of is_dataset_ready and is gone.
ListFiles ==
    /\ pc = "list"
    /\ \E resp \in FileResps(transport) :
         LET r == list_files_in_path(transport, resp)
         IN  IF r.raised
             THEN /\ pc' = "crashed"
                  /\ exc' = "list_files_in_path"
                  /\ UNCHANGED <<files, initial, list_code>>
             ELSE /\ list_code' = IF transport = "http"
                                  THEN resp.status_code ELSE 0
                  /\ files' = select_files(r.entries)
                  /\ initial' = select_files(r.entries)
                  /\ pc' = IF select_files(r.entries) = <<>>
                           THEN "collect" ELSE "submit"
                  /\ exc' = exc
    /\ groups' = <<>>
    /\ UNCHANGED <<aux, transport, nthreads, polls, ready, i, pool, futs, yielded,
                   failed, outs, disk, sess>>

\* ------------------------------------------------------------ rounds
\* One executor.submit of the dict comprehension of lines 91-93.
Submit ==
    /\ pc = "submit"
    /\ Len(futs) < Len(files)
    /\ pool' = Append(pool, [fname |-> files[Len(futs) + 1], rnd |-> i,
                             st |-> "queued", code |-> 0,
                             opened |-> FALSE, sess |-> 0])
    /\ futs' = Append(futs, Len(pool) + 1)
    /\ pc' = IF Len(futs) + 1 = Len(files) THEN "collect" ELSE "submit"
    /\ UNCHANGED <<aux, transport, nthreads, exc, polls, groups, ready, files,
                   initial, i, yielded, failed, outs, disk, list_code, sess>>

\* A worker of the pool takes the oldest queued work item.
worker_free_always(running, n) == TRUE
worker_free(running, n) == Cardinality(running) < n
WorkerStart ==
    /\ worker_free(Running, nthreads)
    /\ \E t \in 1..Len(pool) :
         /\ pool[t].st = "queued"
         /\ \A u \in 1..(t - 1) : pool[u].st # "queued"
         /\ pool' = [pool EXCEPT ![t].st = "running"]
    /\ UNCHANGED <<aux, transport, nthreads, pc, exc, polls, groups, ready, files,
                   initial, i, futs, yielded, failed, outs, disk, list_code, sess>>

\* An HTTP call evaluates `if not self._session` (line 164).
SessionCheck ==
    /\ transport = "http"
    /\ \E t \in Running :
         /\ pool[t].st = "running"
         /\ pool' = [pool EXCEPT ![t].st = session_check(self_session)]
    /\ UNCHANGED <<aux, transport, nthreads, pc, exc, polls, groups, ready, files,
                   initial, i, futs, yielded, failed, outs, disk, list_code, sess>>

\* An HTTP call that saw no session creates one and assigns it (line 165).
SessionCreate ==
    /\ \E t \in Running :
         /\ pool[t].st = "creating"
         /\ pool' = [pool EXCEPT ![t].st = "getting"]
    /\ nsessions' = nsessions + 1
    /\ self_session' = nsessions + 1
    /\ UNCHANGED <<aux, transport, nthreads, pc, exc, polls, groups, ready, files,
                   initial, i, futs, yielded, failed, outs, disk, list_code>>

\* The call is past everything but the transfer itself.
InTransfer(t) ==
    pool[t].st = IF transport = "ftp" THEN "running" ELSE "getting"

\* A running fetch_file call ends: it returns or it raises. The HTTP call
\* reads self._session (line 166) and does its GET on that session.
WorkerFinish ==
    /\ \E t \in Running :
         /\ InTransfer(t)
         /\ \E remote \in FetchRemotes(transport) :
              LET r == fetch_file(transport, pool[t].fname, remote, disk, t)
              IN  /\ pool' = [pool EXCEPT
                                ![t].st = IF r.raised THEN "raised" ELSE "returned",
                                ![t].code = r.code,
                                ![t].opened = r.opened,
                                ![t].sess = self_session]
                  /\ disk' = r.disk
    /\ UNCHANGED <<aux, transport, nthreads, pc, exc, polls, groups, ready, files,
                   initial, i, futs, yielded, failed, outs, list_code, sess>>

\* The body of recover_results' loop for one completed future (lines 67-75).
recover_step_all(fl, task) == Append(fl, task.fname)
recover_step(fl, task) ==
    IF task.st = "raised" THEN Append(fl, task.fname) ELSE fl

\* as_completed yields a completed future that it has not yielded yet.
Collect ==
    /\ pc = "collect"
    /\ \E t \in Range(futs) \ yielded :
         /\ Completed(t)
         /\ yielded' = yielded \cup {t}
         /\ failed' = recover_step(failed, pool[t])
    /\ UNCHANGED <<aux, transport, nthreads, pc, exc, polls, groups, ready, files,
                   initial, i, pool, futs, outs, disk, list_code, sess>>

\* as_completed is exhausted: every future of fut_by_fname was yielded.
exhausted_first(fs, ys, p) ==
    Range(fs) = {} \/ ys # {}
exhausted_on_raise(fs, ys, p) ==
    Range(fs) \subseteq ys \/ \E t \in ys : p[t].st = "raised"
as_completed_exhausted(fs, ys, p) == Range(fs) \subseteq ys

\* Lines 95-107: where fetch goes with the failures fl of round n.
after_round_budget_first(fl, n) ==
    IF n + 1 >= FETCH_ATTEMPTS THEN "failed"
    ELSE IF Len(fl) = 0 THEN "done" ELSE "submit"
after_round(fl, n) ==
    IF Len(fl) = 0 THEN "done"
    ELSE IF n + 1 < FETCH_ATTEMPTS THEN "submit" ELSE "failed"

\* recover_results returns (line 76) and the round ends (lines 94-107).
RecoverReturn ==
    /\ pc = "collect"
    /\ as_completed_exhausted(futs, yielded, pool)
    /\ files' = failed
    /\ outs' = Append(outs, failed)
    /\ pc' = after_round(failed, i)
    /\ i' = IF after_round(failed, i) = "submit" THEN i + 1 ELSE i
    /\ futs' = <<>>
    /\ yielded' = {}
    /\ failed' = <<>>
    /\ UNCHANGED <<aux, transport, nthreads, exc, polls, groups, ready, initial,
                   pool, disk, list_code, sess>>

Next ==
    \/ Poll
    \/ Sleep
    \/ ListFiles
    \/ Submit
    \/ WorkerStart
    \/ SessionCheck
    \/ SessionCreate
    \/ WorkerFinish
    \/ Collect
    \/ RecoverReturn

Spec == Init /\ [][Next]_vars

\* ------------------------------------------------ to_bytes on its own
\* fetch is not running: only the function under study is called.
MainIdle ==
    /\ transport \in Transports
    /\ nthreads = 1
    /\ pc = "idle"
    /\ exc = "none"
    /\ polls = 0
    /\ groups = <<>>
    /\ ready = FALSE
    /\ files = <<>>
    /\ initial = <<>>
    /\ i = 0
    /\ pool = <<>>
    /\ futs = <<>>
    /\ yielded = {}
    /\ failed = <<>>
    /\ outs = <<>>
    /\ disk = [f \in FileNames |-> [st |-> "absent", by |-> 0]]
    /\ list_code = 0
    /\ self_session = 0
    /\ nsessions = 0

\* Largest digits part of the size tokens that are parsed.
MaxDigits == 40
\* The size tokens: digits, then no unit letter or K, M, G. (1024^4 and
\* 1024^5 are beyond the integers TLC computes with, so T and P are left out.)
SizeToks ==
    [digits : 0..MaxDigits, unit : {"", "K", "M"}]
        \cup [digits : 0..1, unit : {"G"}]
        \cup {[digits |-> 12345, unit |-> ""]}

InitToBytes == MainIdle /\ transport = "http" /\ AuxIdle

\* One call of http_noaa_fetcher.to_bytes.
ToBytesCall ==
    /\ \E tok \in SizeToks :
         /\ d_in' = tok
         /\ d_out' = to_bytes(tok)
    /\ UNCHANGED <<main, argv, D, argerr>>

NextToBytes == ToBytesCall

SpecToBytes == InitToBytes /\ [][NextToBytes]_vars

\* ------------------------------------------- UpdateMap (wrf_configurator)
\* A -D argument is a string, given as the sequence of its characters.
\* The characters in use are the letters k, v, a, b, the digits, '.' and '='.
Digits == {"0", "1", "2", "3", "4", "5", "6", "7", "8", "9"}
DigitVal(c) == CHOOSE n \in 0..9 : <<"0", "1", "2", "3", "4", "5", "6", "7", "8", "9">>[n + 1] = c
IndicesOf(str, c) == {j \in 1..Len(str) : str[j] = c}
Min(S) == CHOOSE x \in S : \A y \in S : x <= y
Max(S) == CHOOSE x \in S : \A y \in S : x >= y

\* int(s) succeeds (on these characters: a non-empty run of digits).
is_int(str) == Len(str) > 0 /\ \A j \in 1..Len(str) : str[j] \in Digits
RECURSIVE int(_)
int(str) ==
    IF str = <<>> THEN 0
    ELSE 10 * int(SubSeq(str, 1, Len(str) - 1)) + DigitVal(str[Len(str)])
\* float(s) succeeds (on these characters: digits with at most one '.', and
\* at least one digit).
is_float(str) ==
    /\ \A j \in 1..Len(str) : str[j] \in Digits \cup {"."}
    /\ Cardinality(IndicesOf(str, ".")) <= 1
    /\ \E j \in 1..Len(str) : str[j] \in Digits
\* float(s) as the fraction num / 10^places.
float(str) ==
    LET dots == IndicesOf(str, ".")
        p == IF dots = {} THEN Len(str) + 1 ELSE Min(dots)
    IN  [num |-> int(SubSeq(str, 1, p - 1) \o SubSeq(str, p + 1, Len(str))),
         places |-> IF dots = {} THEN 0 ELSE Len(str) - p]

\* kv_pair: s.split("=", 1) cuts at the first '='; without one the unpacking
\* raises ValueError and kv_pair raises ArgumentTypeError.
kv_pair(str) ==
    IF IndicesOf(str, "=") = {} THEN [raised |-> TRUE]
    ELSE LET p == Min(IndicesOf(str, "="))
             v == SubSeq(str, p + 1, Len(str))
         IN  [raised |-> FALSE,
              k |-> SubSeq(str, 1, p - 1),
              v |-> IF is_int(v) THEN [type |-> "int", val |-> int(v)]
                    ELSE IF is_float(v) THEN [type |-> "float", val |-> float(v)]
                    ELSE [type |-> "str", val |-> v]]

\* dict.update([(k, v)]) on a dict given as the sequence of its items.
dict_update(dct, k, v) ==
    IF \E j \in 1..Len(dct) : dct[j].k = k
    THEN [j \in 1..Len(dct) |-> IF dct[j].k = k THEN [k |-> k, v |-> v] ELSE dct[j]]
    ELSE Append(dct, [k |-> k, v |-> v])

\* UpdateMap.__call__ on the destination dest (namespace.D) and values.
UpdateMap_call_keep_first(dest, values) ==
    LET dct == IF dest.is_none THEN <<>> ELSE dest.items
    IN  IF \E j \in 1..Len(dct) : dct[j].k = values.k THEN Dict(dct)
        ELSE Dict(dict_update(dct, values.k, values.v))
UpdateMap_call(dest, values) ==
    LET dct == IF dest.is_none THEN <<>> ELSE dest.items
    IN  Dict(dict_update(dct, values.k, values.v))

\* -D occurrences on the command line: at most MaxArgs, each one of
\* k1=v1 k2=v2 k2=v3 k1=7 k2=1.5 k1=a=b k2= =v1 and k1 (no '=').
MaxArgs == 3
ArgStrings ==
    {<<"k", "1", "=", "v", "1">>, <<"k", "2", "=", "v", "2">>,
     <<"k", "2", "=", "v", "3">>, <<"k", "1", "=", "7">>,
     <<"k", "2", "=", "1", ".", "5">>, <<"k", "1", "=", "a", "=", "b">>,
     <<"k", "2", "=">>, <<"=", "v", "1">>, <<"k", "1">>}

InitArgs == MainIdle /\ transport = "http" /\ AuxIdle

\* parse_args handles one -D occurrence: type=kv_pair converts the string,
\* then UpdateMap.__call__ updates namespace.D; an ArgumentTypeError makes
\* the parser exit.
ParseArg ==
    /\ ~argerr
    /\ Len(argv) < MaxArgs
    /\ \E str \in ArgStrings :
         /\ argv' = Append(argv, str)
         /\ IF kv_pair(str).raised
            THEN argerr' = TRUE /\ D' = D
            ELSE argerr' = FALSE /\ D' = UpdateMap_call(D, kv_pair(str))
    /\ UNCHANGED <<main, d_in, d_out>>

NextArgs == ParseArg

SpecArgs == InitArgs /\ [][NextArgs]_vars

\* --------------------------------------------- fetch_file on its own
\* Direct calls of fetch_file, one after the other, into one directory.
MaxCalls == 3
CallNames == {"a", "b"}

InitFetchFile == MainIdle /\ AuxIdle

\* One call of fetch_file from start to end; pool is the log of the calls.
FetchFileCall ==
    /\ Len(pool) < MaxCalls
    /\ \E fname \in CallNames :
         \E remote \in FetchRemotes(transport) :
           LET id == Len(pool) + 1
               r == fetch_file(transport, fname, remote, disk, id)
               created == transport = "http" /\ session_check(self_session) = "creating"
           IN  /\ nsessions' = IF created THEN nsessions + 1 ELSE nsessions
               /\ self_session' = IF created THEN nsessions + 1 ELSE self_session
               /\ pool' = Append(pool,
                     [fname |-> fname, rnd |-> 0,
                      st |-> IF r.raised THEN "raised" ELSE "returned",
                      code |-> r.code, opened |-> r.opened,
                      sess |-> IF created THEN nsessions + 1 ELSE self_session])
               /\ disk' = r.disk
    /\ UNCHANGED <<aux, transport, nthreads, pc, exc, polls, groups, ready, files,
                   initial, i, futs, yielded, failed, outs, list_code>>

NextFetchFile == FetchFileCall

SpecFetchFile == InitFetchFile /\ [][NextFetchFile]_vars

TypeOK ==
    /\ pc \in {"poll", "sleep", "list", "submit", "collect", "done", "failed",
               "crashed"}
    /\ i \in 0..(FETCH_ATTEMPTS - 1)
    /\ Range(futs) \subseteq 1..Len(pool)
    /\ yielded \subseteq Range(futs)

\* ------------------------------------------------------------ claims
Tasks == 1..Len(pool)
RoundTasks(r) == {t \in Tasks : pool[t].rnd = r}
RoundNames(r) == {pool[t].fname : t \in RoundTasks(r)}
Attempts(f) == {t \in Tasks : pool[t].fname = f}
Raised(t) == pool[t].st = "raised"
\* The attempt returned and left the whole file in the target directory.
Succeeded(t) ==
    /\ pool[t].st = "returned"
    /\ transport = "http" => pool[t].code = 200
\* The candidate set of the round whose result is outs[r].
RoundInput(r) == IF r = 1 THEN initial ELSE outs[r - 1]
Terminal == pc \in {"done", "failed"}

\* C1: what recover_results returns for a round (the next round's candidate
\* set) is a subset of the names dispatched in that round, holds no name
\* whose task of that round returned, and the next round dispatches only
\* names of it.
C1_RetrySubset ==
    \A r \in 1..Len(outs) :
        /\ Range(outs[r]) \subseteq RoundNames(r - 1)
        /\ \A t \in RoundTasks(r - 1) :
             pool[t].st = "returned" => pool[t].fname \notin Range(outs[r])
        /\ RoundNames(r) \subseteq Range(outs[r])
C1_Witness ==
    /\ Len(outs) >= 1
    /\ \E t, u \in RoundTasks(0) :
         /\ pool[t].st = "returned"
         /\ Raised(u)
         /\ outs[1] = <<pool[u].fname>>
         /\ RoundNames(1) = {pool[u].fname}

\* C2: whenever a task of a later round has been submitted, every task of
\* every earlier round has completed (returned or raised), whatever the
\* workers' interleaving.
C2_RoundBarrier ==
    \A t, u \in Tasks : pool[t].rnd < pool[u].rnd => Completed(t)
C2_Witness ==
    /\ nthreads = 2
    /\ Cardinality(RoundTasks(0)) = 2
    /\ Cardinality(RoundTasks(1)) = 2
    /\ \E u \in RoundTasks(1) : pool[u].st = "running"

\* C3: at most 3 rounds are dispatched, so a name is attempted at most 3
\* times; no round follows a round with an empty failure set; and a name is
\* attempted again only after all its earlier attempts raised.
C3_RetryBudget ==
    /\ Len(outs) <= 3
    /\ \A t \in Tasks : pool[t].rnd \in 0..2
    /\ \A f \in FileNames : Cardinality(Attempts(f)) <= 3
    /\ \A r \in 1..Len(outs) :
         outs[r] = <<>> => (Len(outs) = r /\ RoundTasks(r) = {} /\ pc = "done")
    /\ \A t, u \in Tasks :
         (t < u /\ pool[t].fname = pool[u].fname) => Raised(t)
C3_Witness ==
    /\ pc = "failed"
    /\ Len(outs) = 3
    /\ \E f, g \in Range(initial) :
         /\ Cardinality(Attempts(f)) = 3
         /\ Cardinality(Attempts(g)) = 1
         /\ \A t \in Attempts(g) : pool[t].st = "returned"

\* C4: when fetch has ended and every candidate file has an attempt that
\* succeeded (its first, second or third), fetch ended in the success branch
\* and every candidate file is complete in the target directory.
C4_AllSucceedDone ==
    (/\ Terminal
     /\ \A f \in Range(initial) : \E t \in Attempts(f) : Succeeded(t))
    => (/\ pc = "done"
        /\ \A f \in Range(initial) : disk[f].st = "full")
C4_Witness ==
    /\ pc = "done"
    /\ Cardinality(Range(initial)) = 2
    /\ \A f \in Range(initial) : disk[f].st = "full"
    /\ \E f \in Range(initial) :
         /\ Cardinality(Attempts(f)) = 3
         /\ \E t \in Attempts(f) : pool[t].rnd = 2 /\ Succeeded(t)
         /\ \A t \in Attempts(f) : pool[t].rnd < 2 => Raised(t)

\* C5 (as claimed): when fetch has ended and some candidate file raised in
\* all 3 rounds, fetch ended in the for-else branch, the files left are
\* exactly the files that raised in every round, and every other candidate
\* file is complete in the target directory.
AlwaysFailed ==
    {f \in Range(initial) :
        \A r \in 0..(FETCH_ATTEMPTS - 1) :
            \E t \in RoundTasks(r) : pool[t].fname = f /\ Raised(t)}
C5_ExhaustedReportsMissing ==
    (Terminal /\ AlwaysFailed # {})
    => (/\ pc = "failed"
        /\ Range(files) = AlwaysFailed
        /\ \A f \in Range(initial) \ AlwaysFailed : disk[f].st = "full")

\* C6: when recover_results has returned for a round, every name of the
\* round's candidate set has a task of that round and the task has
\* completed, and the returned list holds exactly the names of the tasks
\* that raised, each once.
C6_FailureIsolation ==
    \A r \in 1..Len(outs) :
        /\ \A j \in 1..Len(RoundInput(r)) :
             \E t \in RoundTasks(r - 1) :
                 pool[t].fname = RoundInput(r)[j] /\ Completed(t)
        /\ Cardinality(RoundTasks(r - 1)) = Len(RoundInput(r))
        /\ Range(outs[r]) = {pool[t].fname : t \in {u \in RoundTasks(r - 1) : Raised(u)}}
        /\ Len(outs[r]) = Cardinality({u \in RoundTasks(r - 1) : Raised(u)})
C6_Witness ==
    /\ nthreads = 2
    /\ Len(outs) = 1
    /\ Cardinality(RoundTasks(0)) = 2
    /\ \E t, u \in RoundTasks(0) :
         /\ t < u
         /\ Raised(t)
         /\ Succeeded(u)
         /\ disk[pool[u].fname].st = "full"
         /\ outs[1] = <<pool[t].fname>>

\* C7 (as claimed): a fetch_file call of the HTTP fetcher whose response
\* status is not 200 ends by raising.
C7_Non200Raises ==
    \A t \in Tasks :
        (transport = "http" /\ Completed(t) /\ pool[t].code \notin {0, 200})
        => Raised(t)

\* C8 (as claimed): with the FTP fetcher no exception of a listing leaves
\* the polling loop: fetch is never ended by is_dataset_ready raising.
C8_PollListingFailureNotFatal ==
    ~(transport = "ftp" /\ pc = "crashed" /\ exc = "is_dataset_ready")

\* C9: after a poll, is_dataset_ready has returned true exactly when the
\* group is a key of the listing and its size is at most 196608; a size of
\* 100000 is ready, a size of 300000 is not, an absent group is not.
C9_ReadyIff ==
    pc \in {"sleep", "list"} =>
        /\ ready = (HasKey(groups, ds) /\ Get(groups, ds).size <= 196608)
        /\ (HasKey(groups, ds) /\ Get(groups, ds).size = 100000) => ready
        /\ (HasKey(groups, ds) /\ Get(groups, ds).size = 300000) => ~ready
        /\ ~HasKey(groups, ds) => ~ready
C9_Witness ==
    /\ pc = "list"
    /\ HasKey(groups, ds)
    /\ Get(groups, ds).size = 100000
    /\ ready

\* C10: the listing of the dataset directory and every submitted task come
\* after a poll that returned true: while fetch is at or past the listing,
\* or any task exists, the latest poll returned ready.
C10_ListAfterReady ==
    (\/ pc \in {"list", "submit", "collect", "done", "failed"}
     \/ exc = "list_files_in_path"
     \/ pool # <<>>)
    => ready
C10_Witness ==
    /\ polls >= 1
    /\ pool # <<>>
    /\ ready

\* C11 (as claimed): once a poll has reported ready, fetch ends in DONE or
\* FAILED: whenever fetch has stopped for good (no step is left) after a
\* ready poll, it stopped in the success branch or in the for-else branch.
C11_ReadyEndsDoneOrFailed ==
    (ready /\ ~ENABLED Next) => pc \in {"done", "failed"}

\* C12: at every moment the number of fetch_file calls that worker threads
\* are executing is at most nthreads.
C12_PoolBound == Cardinality(Running) <= nthreads
C12_Witness ==
    /\ nthreads = 1
    /\ Cardinality(Running) = 1
    /\ \E t \in Tasks : pool[t].st = "queued"

\* C13 (as claimed): to_bytes maps digits d with unit K, M, G to
\* d * 1024^rank (rank 1, 2, 3) and a token of digits alone to that integer.
ExpectedBytes(tok) ==
    CASE tok.unit = "" -> tok.digits
      [] tok.unit = "K" -> tok.digits * 1024
      [] tok.unit = "M" -> tok.digits * 1024 * 1024
      [] tok.unit = "G" -> tok.digits * 1024 * 1024 * 1024
C13_ToBytes == d_in # NoTok => d_out = ExpectedBytes(d_in)

\* C17: after one or more -D k=v occurrences (none of them rejected), the
\* destination is a dict whose keys are exactly the keys that occurred, each
\* with the converted value of its last occurrence; k1=v1 k2=v2 k2=v3 gives
\* {k1: 'v1', k2: 'v3'}.
OccurrencesOf(key) == {j \in 1..Len(argv) : kv_pair(argv[j]).k = key}
ItemsOf(dct) == {dct[j] : j \in 1..Len(dct)}
DocArgs == <<<<"k", "1", "=", "v", "1">>, <<"k", "2", "=", "v", "2">>,
             <<"k", "2", "=", "v", "3">>>>
DocItems == {[k |-> <<"k", "1">>, v |-> [type |-> "str", val |-> <<"v", "1">>]],
             [k |-> <<"k", "2">>, v |-> [type |-> "str", val |-> <<"v", "3">>]]}
C17_LastValueWins ==
    (argv # <<>> /\ ~argerr) =>
        /\ ~D.is_none
        /\ Len(D.items) = Cardinality(ItemsOf(D.items))
        /\ {it.k : it \in ItemsOf(D.items)} = {kv_pair(argv[j]).k : j \in 1..Len(argv)}
        /\ \A it \in ItemsOf(D.items) :
             it.v = kv_pair(argv[Max(OccurrencesOf(it.k))]).v
        /\ argv = DocArgs => ItemsOf(D.items) = DocItems
C17_Witness ==
    /\ argv = DocArgs
    /\ ~argerr
    /\ ItemsOf(D.items) = DocItems

\* C14: when every fetch succeeds, fetch ends the same way whatever the pool
\* size (1, 2, 4 or 8) and the interleaving: in the success branch, with
\* every task completed and the files on disk being exactly the candidate
\* set, each complete.
C14_PoolSizeIndependent ==
    (Terminal /\ \A t \in Tasks : Completed(t) => Succeeded(t))
    => (/\ pc = "done"
        /\ \A t \in Tasks : Completed(t)
        /\ {f \in FileNames : disk[f].st # "absent"} = Range(initial)
        /\ \A f \in Range(initial) : disk[f] = [st |-> "full", by |-> Min(Attempts(f))])
C14_Witness ==
    /\ nthreads = 8
    /\ pc = "done"
    /\ Cardinality(Range(initial)) = 2
    /\ \A t \in Tasks : Succeeded(t)
    /\ \A f \in Range(initial) : disk[f].st = "full"

\* C15 (as claimed): once an attempt for a name has succeeded, the file of
\* that name holds the content of the latest successful attempt, after any
\* sequence of successful and failed attempts.
SuccessfulAttempts(f) == {t \in Attempts(f) : Succeeded(t)}
C15_LatestSuccessfulContent ==
    \A f \in CallNames :
        SuccessfulAttempts(f) # {} =>
            disk[f] = [st |-> "full", by |-> Max(SuccessfulAttempts(f))]
\* C15 (amended): the file of a name holds what the latest attempt that
\* opened the target wrote: the content of the latest successful attempt,
\* unless a later (FTP) attempt failed after opening the target, and then
\* the partial content of the latest such attempt. Attempts that fail
\* without opening the target (every HTTP failure) leave the file as it was.
C15_LatestOpenerContent ==
    \A f \in CallNames :
        LET openers == {t \in Attempts(f) : pool[t].opened}
            S == SuccessfulAttempts(f)
            later == {t \in openers : t > Max(S)}
        IN  /\ openers = {} => disk[f].st = "absent"
            /\ (openers # {} /\ S = {}) =>
                  disk[f] = [st |-> "partial", by |-> Max(openers)]
            /\ (S # {} /\ later = {}) =>
                  disk[f] = [st |-> "full", by |-> Max(S)]
            /\ (S # {} /\ later # {}) =>
                  (/\ transport = "ftp"
                   /\ disk[f] = [st |-> "partial", by |-> Max(later)])
C15_Witness ==
    \E f \in CallNames :
        \E q, t \in Attempts(f) :
            /\ q < t
            /\ Succeeded(q)
            /\ ~Succeeded(t)
            /\ Cardinality(Attempts(f)) = 3
            /\ disk[f] = [st |-> "full", by |-> q]

\* C16 (as claimed): when the listing of the dataset directory fails with a
\* non-success status, fetch does not end in the success branch.
C16_FailedListingNotDone ==
    ~(list_code \notin {0, 200} /\ pc = "done")

\* C18: the candidate list of every round holds no name twice: no two tasks
\* of one round, and no two tasks running at the same time, have the same
\* file name.
C18_UniqueNames ==
    /\ \A j, k \in 1..Len(files) : files[j] = files[k] => j = k
    /\ \A j, k \in 1..Len(initial) : initial[j] = initial[k] => j = k
    /\ \A t, u \in Tasks :
         (t # u /\ pool[t].rnd = pool[u].rnd) => pool[t].fname # pool[u].fname
    /\ \A t, u \in Running : t # u => pool[t].fname # pool[u].fname
C18_Witness ==
    /\ Cardinality(Running) = 2
    /\ \A t \in Running : pool[t].rnd = 1 /\ InTransfer(t)

\* C19 (as claimed): an HTTP fetcher creates at most one session, and all
\* its fetch_file calls use the same session.
C19_OneSession ==
    /\ nsessions <= 1
    /\ \A t, u \in Tasks :
         (Completed(t) /\ Completed(u)) => pool[t].sess = pool[u].sess

\* C20 (as claimed): when fetch has ended in the success branch, every name
\* of the initial candidate set is complete in the target directory,
\* written by a completed attempt.
C20_DoneAllWritten ==
    pc = "done" =>
        \A f \in Range(initial) :
            /\ disk[f].st = "full"
            /\ \E t \in Attempts(f) : Completed(t) /\ pool[t].opened
====
